---- MODULE Spec2Model ----
(***************************************************************************)
(* A model of metal_simulate.py: LogicSim (cycle, add_event, generate,     *)
(* find_node_groupings, add_to_node_groups, infer_sensitivity_list) and    *)
(* Node (value, clock).                                                    *)
(*                                                                         *)
(* Spec    is the run phase: client writes and cycle() calls on a          *)
(*         simulator built by generate() for a small design.               *)
(* SpecGen is the build phase: generate() groups the connected ports of a  *)
(*         model and attaches a Node to each group.                        *)
(* SpecGroupings is the build phase again, for find_node_groupings alone,  *)
(*         with connection lists that need not be symmetric.               *)
(* SpecLive is Spec with the steps of a cycle() call taken as long as one  *)
(*         is possible.                                                    *)
(* SpecHold is Spec with a client that also assigns register C.           *)
(* SpecSort is the run phase on SorterRTLFlat (SorterRTLFlat.py).          *)
(* SpecArb  is the two round-robin arbiters as arbiters_test.py drives     *)
(*         them.                                                           *)
(***************************************************************************)
EXTENDS Integers, Sequences, FiniteSets, TLC

VARIABLES
  \* ---- LogicSim fields (metal_simulate.py:32-38)
  num_cycles,        \* self.num_cycles
  vnode_callbacks,   \* self.vnode_callbacks: Node -> list of functions
  rnode_callbacks,   \* self.rnode_callbacks: list of register Nodes
  event_queue,       \* self.event_queue: a deque, leftmost element first
  posedge_clk_fns,   \* self.posedge_clk_fns: list of functions
  \* ---- Node fields (metal_simulate.py:316-319, 328)
  value,             \* Node._value
  next,              \* Node.next, meaningful where has_next
  has_next,          \* whether the attribute Node.next exists
  is_reg,            \* Node.is_reg
  \* ---- position of the caller inside cycle()
  pc,                \* "idle" | "settle" | "posedge" | "commit" | "advance"
  idx,               \* position of the for loops of cycle()
  running,           \* the function being executed, or NoFn
  ip,                \* the next statement of the running function
  raised,            \* the exception the last cycle() call ended with
  \* ---- inputs consumed so far
  writes,            \* number of client writes made
  \* ---- history (not program state)
  pre,               \* Node values when the current cycle() was called
  older,             \* <<f, g>>: f and g are pending and f was enqueued first
  ran,               \* clock-edge functions called so far in this cycle()
  drain_execs,       \* a function was popped in the current settle loop
  drained_once,      \* some settle loop has run to its exit
  wire_written,      \* a wire Node was written since the last settle exit
  last_write,        \* the step just taken, if a Node write: [node, val, ...]
  committed,         \* the register Nodes whose clock() has run at least once
  pending,           \* the register Nodes written since their last clock()
  \* ---- generate(): the model it is given
  ports,             \* model.ports, per module of the hierarchy
  connections,       \* port.connections
  \* ---- generate(): what it builds
  node_groups,       \* self.node_groups
  p_value,           \* port._value
  gen_pc,            \* "groupings" | "nodes" | "done"
  gen_idx,           \* position of the loop of generate() being run
  \* ---- the round-robin arbiter under test (arbiters_test.py)
  with_en,           \* the model is RoundRobinArbiterEn, not RoundRobinArbiter
  priority_reg,      \* the priority register, one-hot
  reqs,              \* model.reqs
  en,                \* model.en (RoundRobinArbiterEn)
  grants,            \* model.grants
  \* ---- history of the arbiter (not program state)
  prev_priority,     \* priority_reg before the last cycle, 0 before the first
  tv,                \* rows of the test's vectors run so far, -1 off the test
  ones_run           \* cycles run so far if all, at most 4, had every request, else -1

genVars == << ports, connections, node_groups, p_value, gen_pc, gen_idx >>

arbVars == << with_en, priority_reg, reqs, en, grants, prev_priority, tv,
              ones_run >>

vars == << num_cycles, vnode_callbacks, rnode_callbacks, event_queue,
           posedge_clk_fns, value, next, has_next, is_reg, pc, idx, running,
           ip, raised, writes, pre, older, ran, drain_execs, drained_once,
           wire_written, last_write, committed, pending, genVars,
           arbVars >>

simFields == << vnode_callbacks, rnode_callbacks, posedge_clk_fns, is_reg,
                 genVars, arbVars >>

\* no arbiter is being simulated
ArbIdle ==
  /\ with_en = FALSE
  /\ priority_reg = 0
  /\ reqs = 0
  /\ en = 0
  /\ grants = 0
  /\ prev_priority = 0
  /\ tv = -1
  /\ ones_run = -1

\* ------------------------------------------------------------------ bounds

MaxVal    == 1
MaxCycles == 2
MaxWrites == 3

Vals == 0..MaxVal

\* ------------------------------------------------------------ small helpers

Range(s) == { s[i] : i \in 1..Len(s) }

Last(s) == s[Len(s)]

Front(s) == SubSeq(s, 1, Len(s) - 1)

Perms(S) ==
  { s \in [1..Cardinality(S) -> S] : \A x \in S : \E i \in DOMAIN s : s[i] = x }

NoFn == "none"

\* ------------------------------------------------- the design under simulation
\* The module hierarchy handed to LogicSim: what generate() reads from the front
\* end (model.submodules, model.senses, model.regs, the decorated functions) and
\* the Node each port holds once generate() has attached the Nodes.

Nodes == { "in_", "sel", "w", "out", "A", "B", "C" }

Modules == { "Top", "M1", "M2", "M3" }

CombFns == { "f1", "f2" }

ClkFns == { "ra", "rb" }

\* model.submodules, in declaration order
submodules(m) == IF m = "Top" THEN << "M1", "M2", "M3" >> ELSE << >>

\* port._value: ports M1.a and M1.a2 are both connected to the top-level input;
\* a port of the flat sorter, connected to nothing, holds a Node of its own,
\* named as the port
port_value(p) ==
  CASE p = "M1.a"  -> "in_"
    [] p = "M1.a2" -> "in_"
    [] p = "M1.y"  -> "w"
    [] p = "M2.b"  -> "w"
    [] p = "M2.q"  -> "A"
    [] p = "M2.c"  -> "C"
    [] p = "M3.A"  -> "A"
    [] p = "M3.B"  -> "B"
    [] OTHER       -> p

\* ---- SorterRTLFlat: one module, no submodules, no connections
SortIn  == << "in_0", "in_1", "in_2", "in_3" >>

SortOut == << "out_0", "out_1", "out_2", "out_3" >>

SortNodes ==
  Range(SortIn) \cup Range(SortOut)
    \cup { "reg_AB_0", "reg_AB_1", "reg_AB_2", "reg_AB_3",
           "B0_max", "B0_min", "B1_max", "B1_min",
           "reg_BC_0", "reg_BC_1", "reg_BC_2", "reg_BC_3",
           "C0_max", "C0_min", "C1_max", "C1_min", "C2_max", "C2_min" }

\* model.senses of the sorter: its input ports
sorter_senses == SortIn

\* model.regs of the sorter: the two ranks of pipeline registers
sorter_regs ==
  << "reg_AB_0", "reg_AB_1", "reg_AB_2", "reg_AB_3",
     "reg_BC_0", "reg_BC_1", "reg_BC_2", "reg_BC_3" >>

Copy(d, x) == [ dst |-> d, kind |-> "copy", a |-> x, b |-> x, s |-> x ]

Max(d, x, y) == [ dst |-> d, kind |-> "max", a |-> x, b |-> y, s |-> x ]

Min(d, x, y) == [ dst |-> d, kind |-> "min", a |-> x, b |-> y, s |-> x ]

\* the four decorated functions of SorterRTLFlat
SorterBody(f) ==
  CASE f = "reg_ab" ->
         << Copy("reg_AB_0", "in_0"), Copy("reg_AB_1", "in_1"),
            Copy("reg_AB_2", "in_2"), Copy("reg_AB_3", "in_3") >>
    [] f = "stage_b" ->
         << Max("B0_max", "reg_AB_0", "reg_AB_1"), Min("B0_min", "reg_AB_0", "reg_AB_1"),
            Max("B1_max", "reg_AB_2", "reg_AB_3"), Min("B1_min", "reg_AB_2", "reg_AB_3") >>
    [] f = "reg_bc" ->
         << Copy("reg_BC_0", "B0_min"), Copy("reg_BC_1", "B0_max"),
            Copy("reg_BC_2", "B1_min"), Copy("reg_BC_3", "B1_max") >>
    [] f = "stage_c" ->
         << Max("C0_max", "reg_BC_0", "reg_BC_2"), Min("C0_min", "reg_BC_0", "reg_BC_2"),
            Max("C1_max", "reg_BC_1", "reg_BC_3"), Min("C1_min", "reg_BC_1", "reg_BC_3"),
            Max("C2_max", "C0_max", "C1_min"), Min("C2_min", "C0_max", "C1_min"),
            Copy("out_0", "C0_min"), Copy("out_1", "C2_min"),
            Copy("out_2", "C2_max"), Copy("out_3", "C1_max") >>

\* The designs differ in what the front end declares: whether M1 lists its own
\* output among its senses (a combinational loop), and the order of M3's regs.
Designs ==
  [ loop : BOOLEAN, regs3 : Perms({ "M3.A", "M3.B" }) ]

\* model.senses
senses(d, m) ==
  CASE m = "M1" -> IF d.loop THEN << "M1.a", "M1.a2", "M1.y" >>
                             ELSE << "M1.a", "M1.a2" >>
    [] m = "M2" -> << "M2.b", "M2.q" >>
    [] m = "Sorter" -> sorter_senses
    [] OTHER    -> << >>

\* whether the module has a regs attribute at all (the try/except of line 251)
has_regs(m) == m \in { "M2", "M3", "Sorter" }

\* model.regs
regs(d, m) ==
  CASE m = "M2" -> << "M2.c" >>
    [] m = "M3" -> d.regs3
    [] m = "Sorter" -> sorter_regs
    [] OTHER    -> << >>

\* the names SensitivityListVisitor collects: comb_loads and reg_stores are sets
comb_loads(m) ==
  CASE m = "M1" -> { "f1" }
    [] m = "M2" -> { "f2" }
    [] m = "Sorter" -> { "stage_b", "stage_c" }
    [] OTHER    -> { }

reg_stores(m) ==
  CASE m = "M3" -> { "ra", "rb" }
    [] m = "Sorter" -> { "reg_ab", "reg_bc" }
    [] OTHER    -> { }

\* The decorated functions, statement by statement.  Each statement assigns
\* dst.value; "copy" reads a.value, "mux" reads a.value if s.value is true and
\* b.value otherwise, "max" and "min" read a.value and b.value.
Body(f) ==
  CASE f = "f1" -> << [ dst |-> "w",   kind |-> "copy", a |-> "in_", b |-> "in_", s |-> "in_" ] >>
    [] f = "f2" -> << [ dst |-> "out", kind |-> "copy", a |-> "w",   b |-> "w",   s |-> "w" ],
                      [ dst |-> "C",   kind |-> "copy", a |-> "A",   b |-> "A",   s |-> "A" ] >>
    [] f = "ra" -> << [ dst |-> "A",   kind |-> "mux",  a |-> "in_", b |-> "B",   s |-> "sel" ] >>
    [] f = "rb" -> << [ dst |-> "B",   kind |-> "copy", a |-> "A",   b |-> "A",   s |-> "A" ] >>
    [] OTHER    -> SorterBody(f)

\* the right-hand side of a statement over the values seen; "max" and "min" are
\* the two branches of: if a.value >= b.value
Rhs(st, seen) ==
  CASE st.kind = "mux" -> IF seen[st.s] # 0 THEN seen[st.a] ELSE seen[st.b]
    [] st.kind = "max" -> IF seen[st.a] >= seen[st.b] THEN seen[st.a] ELSE seen[st.b]
    [] st.kind = "min" -> IF seen[st.a] >= seen[st.b] THEN seen[st.b] ELSE seen[st.a]
    [] OTHER           -> seen[st.a]

\* a variant of the getter that returns a register's pending next value
EvalPending(st, val) ==
  Rhs(st, [ n \in DOMAIN val |->
              IF is_reg[n] /\ has_next[n] THEN next[n] ELSE val[n] ])

\* the right-hand side of a statement, read from the Nodes' current values
Eval(st, val) == Rhs(st, val)

\* --------------------------------------------------- infer_sensitivity_list
\* sim: [ vnode_callbacks, posedge_clk_fns, rnode_callbacks, is_reg ]
\* ord: the iteration order of the sets comb_loads and reg_stores, per module

\* lines 238-242, for one function
RECURSIVE AddSenses(_, _, _)
AddSenses(cb, input_ports, func_ptr) ==
  IF input_ports = << >> THEN cb
  ELSE LET value_ptr == port_value(Head(input_ports))
           old == IF value_ptr \in DOMAIN cb THEN cb[value_ptr] ELSE << >>
           cb1 == [ n \in DOMAIN cb \cup { value_ptr } |->
                      IF n = value_ptr THEN old \o << func_ptr >> ELSE cb[n] ]
       IN  AddSenses(cb1, Tail(input_ports), func_ptr)

\* lines 236-242
RECURSIVE AddCombLoads(_, _, _)
AddCombLoads(cb, funcs, input_ports) ==
  IF funcs = << >> THEN cb
  ELSE AddCombLoads(AddSenses(cb, input_ports, Head(funcs)), Tail(funcs), input_ports)

\* lines 252-254: reg._value.is_reg = True; rnode_callbacks += [reg._value]
RegNodes(rs) == [ i \in 1..Len(rs) |-> port_value(rs[i]) ]

RECURSIVE infer_sensitivity_list(_, _, _, _)
RECURSIVE InferSubmodules(_, _, _, _)
infer_sensitivity_list(sim, d, ord, model) ==
  LET rn   == IF has_regs(model) THEN RegNodes(regs(d, model)) ELSE << >>
      sim1 == [ vnode_callbacks |->
                  AddCombLoads(sim.vnode_callbacks, ord.comb[model], senses(d, model)),
                posedge_clk_fns |-> sim.posedge_clk_fns \o ord.reg[model],
                rnode_callbacks |-> sim.rnode_callbacks \o rn,
                is_reg |-> [ n \in DOMAIN sim.is_reg |->
                             sim.is_reg[n] \/ n \in Range(rn) ] ]
  IN  InferSubmodules(sim1, d, ord, submodules(model))

InferSubmodules(sim, d, ord, ms) ==
  IF ms = << >> THEN sim
  ELSE InferSubmodules(infer_sensitivity_list(sim, d, ord, Head(ms)), d, ord, Tail(ms))

\* the iteration orders the sets comb_loads and reg_stores can have
Orders ==
  LET combs == UNION { Perms(comb_loads(m)) : m \in Modules }
      clks  == UNION { Perms(reg_stores(m)) : m \in Modules }
  IN  { o \in [ comb : [ Modules -> combs ], reg : [ Modules -> clks ] ] :
          \A m \in Modules : /\ o.comb[m] \in Perms(comb_loads(m))
                             /\ o.reg[m] \in Perms(reg_stores(m)) }

\* LogicSim.__init__ (lines 32-38) and Node.__init__ (line 319)
EmptySim ==
  [ vnode_callbacks |-> << >>,
    posedge_clk_fns |-> << >>,
    rnode_callbacks |-> << >>,
    is_reg          |-> [ n \in Nodes |-> FALSE ] ]

\* ------------------------------------------------------------------ add_event

\* a variant of AppendNew without the membership test of line 79
RECURSIVE AppendAll(_, _)
AppendAll(q, funcs) ==
  IF funcs = << >> THEN q
  ELSE AppendAll(<< Head(funcs) >> \o q, Tail(funcs))

\* a variant of AppendNew that appends on the side pop() takes from
RECURSIVE AppendNewRight(_, _)
AppendNewRight(q, funcs) ==
  IF funcs = << >> THEN q
  ELSE AppendNewRight(IF Head(funcs) \in Range(q) THEN q ELSE q \o << Head(funcs) >>,
                      Tail(funcs))

\* lines 78-80: for func in funcs: if func not in queue: queue.appendleft(func)
RECURSIVE AppendNew(_, _)
AppendNew(q, funcs) ==
  IF funcs = << >> THEN q
  ELSE AppendNew(IF Head(funcs) \in Range(q) THEN q ELSE << Head(funcs) >> \o q,
                 Tail(funcs))

\* lines 63-80
add_event(q, value_node) ==
  IF value_node \in DOMAIN vnode_callbacks
  THEN AppendNew(q, vnode_callbacks[value_node])
  ELSE q

\* ----------------------------------------------------------------- history

NoWrite == [ node |-> "none", val |-> 0, queue_before |-> << >>,
             value_before |-> 0 ]

\* f is older than g: both are pending and f was pending when g was enqueued
OlderAfter(q, q1) ==
  { p \in older : p[1] \in Range(q1) /\ p[2] \in Range(q1) }
    \cup { << f, g >> \in Range(q1) \X Range(q1) :
             f \in Range(q) /\ g \notin Range(q) }

\* where funcs names f first
FirstAt(funcs, f) == CHOOSE i \in 1..Len(funcs) :
                       funcs[i] = f /\ \A j \in 1..(i - 1) : funcs[j] # f

\* f is older than g also when one call of add_event enqueued both, f first
SameCall(n, q, q1) ==
  IF n \in DOMAIN vnode_callbacks
  THEN { << f, g >> \in (Range(q1) \ Range(q)) \X (Range(q1) \ Range(q)) :
           FirstAt(vnode_callbacks[n], f) < FirstAt(vnode_callbacks[n], g) }
  ELSE { }

\* ---------------------------------------------------------------- Node.value

\* a variant of the setter that ignores is_reg
NodeSetValueImmediate(n, v) ==
  /\ event_queue' = add_event(event_queue, n)
  /\ value' = [ value EXCEPT ![n] = v ]
  /\ UNCHANGED << next, has_next >>

\* a variant of the setter whose register branch also assigns _value
NodeSetValueThrough(n, v) ==
  IF is_reg[n]
  THEN /\ next' = [ next EXCEPT ![n] = v ]
       /\ has_next' = [ has_next EXCEPT ![n] = TRUE ]
       /\ value' = [ value EXCEPT ![n] = v ]
       /\ UNCHANGED event_queue
  ELSE /\ event_queue' = add_event(event_queue, n)
       /\ value' = [ value EXCEPT ![n] = v ]
       /\ UNCHANGED << next, has_next >>

\* a variant of the setter that notifies only when the value changes
NodeSetValueIfChanged(n, v) ==
  IF is_reg[n]
  THEN /\ next' = [ next EXCEPT ![n] = v ]
       /\ has_next' = [ has_next EXCEPT ![n] = TRUE ]
       /\ UNCHANGED << value, event_queue >>
  ELSE /\ event_queue' = (IF value[n] = v THEN event_queue
                                          ELSE add_event(event_queue, n))
       /\ value' = [ value EXCEPT ![n] = v ]
       /\ UNCHANGED << next, has_next >>

\* the setter, lines 325-331
NodeSetValue(n, v) ==
  IF is_reg[n]
  THEN /\ next' = [ next EXCEPT ![n] = v ]
       /\ has_next' = [ has_next EXCEPT ![n] = TRUE ]
       /\ UNCHANGED << value, event_queue >>
  ELSE /\ event_queue' = add_event(event_queue, n)
       /\ value' = [ value EXCEPT ![n] = v ]
       /\ UNCHANGED << next, has_next >>

\* what a write leaves in the history
NoteWrite(n, v) ==
  /\ last_write' = [ node |-> n, val |-> v, queue_before |-> event_queue,
                     value_before |-> value[n] ]
  /\ older' = OlderAfter(event_queue, event_queue')
                \cup SameCall(n, event_queue, event_queue')
  /\ wire_written' = (wire_written \/ ~is_reg[n])
  /\ pending' = IF is_reg[n] THEN pending \cup { n } ELSE pending

\* ------------------------------------------------------------------- actions

\* the Nodes client code assigns: the design's inputs, an internal wire and a
\* register
ClientNodes == { "in_", "sel", "w", "A" }

\* client code assigns node.value between two calls of cycle()
ClientWrite(n, v) ==
  /\ pc = "idle"
  /\ writes < MaxWrites
  /\ NodeSetValue(n, v)
  /\ NoteWrite(n, v)
  /\ writes' = writes + 1
  /\ UNCHANGED << num_cycles, simFields, committed, pc, idx, running, ip, raised, pre,
                  ran, drain_execs, drained_once >>

\* cycle() is called (line 40)
CycleCall ==
  /\ pc = "idle"
  /\ num_cycles < MaxCycles
  /\ pc' = "settle"
  /\ raised' = "none"
  /\ pre' = value
  /\ ran' = << >>
  /\ drain_execs' = FALSE
  /\ last_write' = NoWrite
  /\ UNCHANGED << num_cycles, simFields, committed, pending, event_queue, value, next, has_next,
                  idx, running, ip, writes, older, drained_once, wire_written >>

\* a variant of the loop test: an if in place of the while
DrainGoesOnce == event_queue # << >> /\ ~drain_execs

\* line 49: the loop goes on while the queue holds something
DrainGoesOn == event_queue # << >>

\* line 50: func = self.event_queue.pop()
PopFunc == Last(event_queue)

\* a variant of pop() that reads the rightmost element and leaves it in place
PopRestPeek == event_queue

PopRest == Front(event_queue)

\* lines 49-51: one iteration of the settle loop, up to the call of func
SettlePop ==
  /\ pc = "settle"
  /\ running = NoFn
  /\ DrainGoesOn
  /\ running' = PopFunc
  /\ event_queue' = PopRest
  /\ ip' = 1
  /\ drain_execs' = TRUE
  /\ older' = OlderAfter(event_queue, event_queue')
  /\ last_write' = NoWrite
  /\ UNCHANGED << num_cycles, simFields, committed, pending, value, next, has_next, pc, idx,
                  raised, writes, pre, ran, drained_once, wire_written >>

\* one statement of the function being executed (lines 51 and 55)
ExecStmt ==
  /\ running # NoFn
  /\ LET st == Body(running)[ip]
         v  == Eval(st, value)
     IN  /\ NodeSetValue(st.dst, v)
         /\ NoteWrite(st.dst, v)
  /\ IF ip = Len(Body(running))
     THEN running' = NoFn /\ ip' = 1
     ELSE running' = running /\ ip' = ip + 1
  /\ UNCHANGED << num_cycles, simFields, committed, pc, idx, raised, writes, pre, ran,
                  drain_execs, drained_once >>

\* line 49 finds the queue empty: on to the clock-edge functions (line 54)
SettleExit ==
  /\ pc = "settle"
  /\ running = NoFn
  /\ ~DrainGoesOn
  /\ pc' = "posedge"
  /\ idx' = 1
  /\ drained_once' = TRUE
  /\ wire_written' = FALSE
  /\ last_write' = NoWrite
  /\ UNCHANGED << num_cycles, simFields, committed, pending, event_queue, value, next, has_next,
                  running, ip, raised, writes, pre, older, ran, drain_execs >>

\* lines 54-55: the next clock-edge function is called
PosedgeCall ==
  /\ pc = "posedge"
  /\ running = NoFn
  /\ idx <= Len(posedge_clk_fns)
  /\ running' = posedge_clk_fns[idx]
  /\ ip' = 1
  /\ idx' = idx + 1
  /\ ran' = Append(ran, posedge_clk_fns[idx])
  /\ last_write' = NoWrite
  /\ UNCHANGED << num_cycles, simFields, committed, pending, event_queue, value, next, has_next,
                  pc, raised, writes, pre, older, drain_execs, drained_once,
                  wire_written >>

\* the loop of line 54 is over: on to the registers (line 58)
PosedgeExit ==
  /\ pc = "posedge"
  /\ running = NoFn
  /\ idx > Len(posedge_clk_fns)
  /\ pc' = "commit"
  /\ idx' = 1
  /\ last_write' = NoWrite
  /\ UNCHANGED << num_cycles, simFields, committed, pending, event_queue, value, next, has_next,
                  running, ip, raised, writes, pre, older, ran, drain_execs,
                  drained_once, wire_written >>

\* a variant of Node.clock that notifies the simulator
NodeClockNotify(reg) ==
  /\ value' = [ value EXCEPT ![reg] = next[reg] ]
  /\ event_queue' = add_event(event_queue, reg)
  /\ UNCHANGED << next, has_next >>

\* a variant of Node.clock that notifies the simulator when the value changes
NodeClockNotifyChange(reg) ==
  /\ value' = [ value EXCEPT ![reg] = next[reg] ]
  /\ event_queue' = IF next[reg] # value[reg] THEN add_event(event_queue, reg)
                                              ELSE event_queue
  /\ UNCHANGED << next, has_next >>

\* a variant of Node.clock that empties the buffer it has committed
NodeClockClears(reg) ==
  /\ value' = [ value EXCEPT ![reg] = next[reg] ]
  /\ next' = [ next EXCEPT ![reg] = 0 ]
  /\ UNCHANGED << has_next, event_queue >>

\* Node.clock, lines 333-335: self._value = self.next
NodeClock(reg) ==
  /\ value' = [ value EXCEPT ![reg] = next[reg] ]
  /\ UNCHANGED << next, has_next, event_queue >>

\* lines 58-59: reg.clock() for a register whose next has been written
CommitReg ==
  /\ pc = "commit"
  /\ idx <= Len(rnode_callbacks)
  /\ has_next[rnode_callbacks[idx]]
  /\ NodeClock(rnode_callbacks[idx])
  /\ committed' = committed \cup { rnode_callbacks[idx] }
  /\ pending' = pending \ { rnode_callbacks[idx] }
  /\ idx' = idx + 1
  /\ last_write' = NoWrite
  /\ UNCHANGED << num_cycles, simFields, pc, running, ip, raised, writes, pre,
                  older, ran, drain_execs, drained_once, wire_written >>

\* lines 58-59 and 335: reg.clock() reads self.next, which no write has created:
\* the AttributeError leaves cycle()
CommitRaises ==
  /\ pc = "commit"
  /\ idx <= Len(rnode_callbacks)
  /\ ~has_next[rnode_callbacks[idx]]
  /\ raised' = "AttributeError"
  /\ pc' = "idle"
  /\ idx' = 1
  /\ last_write' = NoWrite
  /\ UNCHANGED << num_cycles, simFields, committed, pending, event_queue, value, next, has_next,
                  running, ip, writes, pre, older, ran, drain_execs,
                  drained_once, wire_written >>

\* a variant of the end of cycle() without line 61
AdvanceNoCount ==
  /\ pc = "commit"
  /\ idx > Len(rnode_callbacks)
  /\ pc' = "idle"
  /\ idx' = 1
  /\ last_write' = NoWrite
  /\ UNCHANGED << num_cycles, simFields, committed, pending, event_queue, value, next, has_next,
                  running, ip, raised, writes, pre, older, ran, drain_execs,
                  drained_once, wire_written >>

\* line 61, and the return of cycle()
Advance ==
  /\ pc = "commit"
  /\ idx > Len(rnode_callbacks)
  /\ num_cycles' = num_cycles + 1
  /\ pc' = "idle"
  /\ idx' = 1
  /\ last_write' = NoWrite
  /\ UNCHANGED << simFields, committed, pending, event_queue, value, next, has_next, running, ip,
                  raised, writes, pre, older, ran, drain_execs, drained_once,
                  wire_written >>

\* ================================================================ generate()
\* The model generate() is given: a top module with two ports and a submodule
\* with one, a fourth endpoint k that is no module's port (a constant or a
\* wire), undirected connections among the four, and at most two endpoints that
\* own a Node before generate() runs.

Ends == { "a", "b", "c", "k" }

GenModules == << "GTop", "GSub" >>

\* model.submodules of the model given to generate()
gen_submodules(m) == IF m = "GTop" THEN << "GSub" >> ELSE << >>

\* port.width, as declared
PortWidth(e) ==
  CASE e = "a" -> 1
    [] e = "b" -> 2
    [] e = "c" -> 4
    [] e = "k" -> 8

None == [ kind |-> "none", id |-> 0 ]

PreNode(i) == [ kind |-> "pre", id |-> i ]

NewNode(i) == [ kind |-> "new", id |-> i ]

PreNodes == { PreNode(1), PreNode(2) }

\* the connection lists of an undirected edge set
ConnOf(edges) == [ e \in Ends |-> { f \in Ends : { e, f } \in edges } ]

EdgeSets == SUBSET { pr \in SUBSET Ends : Cardinality(pr) = 2 }

\* the Nodes owned before generate(): none, one Node (on one or two endpoints),
\* or two different Nodes
PreOwned ==
  { pv \in [ Ends -> PreNodes \cup { None } ] :
      /\ Cardinality({ e \in Ends : pv[e] # None }) <= 2
      /\ (\E e \in Ends : pv[e] = PreNode(2)) => (\E e \in Ends : pv[e] = PreNode(1)) }

\* a variant of the list comprehension that stops at the first group it joins
RECURSIVE ScanOnce(_, _, _)
ScanOnce(xs, group, kept) ==
  IF xs = << >> THEN kept \o << group >>
  ELSE IF Head(xs) \cap group # { }
       THEN kept \o Tail(xs) \o << group \cup Head(xs) >>
       ELSE ScanOnce(Tail(xs), group, kept \o << Head(xs) >>)

\* lines 141-154: the groups after add_to_node_groups(port).  Scan is the list
\* comprehension of line 153 with the side effect of disjoint() on group.
RECURSIVE Scan(_, _, _)
Scan(xs, group, kept) ==
  IF xs = << >> THEN kept \o << group >>
  ELSE IF Head(xs) \cap group # { }
       THEN Scan(Tail(xs), group \cup Head(xs), kept)
       ELSE Scan(Tail(xs), group, kept \o << Head(xs) >>)

add_to_node_groups(groups, port) ==
  Scan(groups, { port } \cup connections[port], << >>)

\* lines 133-137: the ports in the order find_node_groupings visits them
RECURSIVE PortWalk(_)
RECURSIVE PortWalkSubs(_)
PortWalk(m) == ports[m] \o PortWalkSubs(gen_submodules(m))

PortWalkSubs(ms) ==
  IF ms = << >> THEN << >> ELSE PortWalk(Head(ms)) \o PortWalkSubs(Tail(ms))

SetMax(S) == CHOOSE x \in S : \A y \in S : y <= x

\* line 98
GroupWidth(group) == SetMax({ PortWidth(e) : e \in group })

\* Node.width: of a Node made at line 100, the width of its group; a Node owned
\* beforehand was made with the width of an endpoint that owns it
NodeWidth(n) ==
  IF n.kind = "new" THEN GroupWidth(node_groups[n.id])
  ELSE SetMax({ PortWidth(e) : e \in { f \in Ends : p_value[f] = n } })

\* lines 101-103: the ports of the group that have no Node get the new one
AttachNode(group, node) ==
  [ e \in Ends |-> IF e \in group /\ p_value[e] = None THEN node ELSE p_value[e] ]

runVars == << num_cycles, vnode_callbacks, rnode_callbacks, event_queue,
              posedge_clk_fns, value, next, has_next, is_reg, pc, idx, running,
              ip, raised, writes, pre, older, ran, drain_execs, drained_once,
              wire_written, last_write, committed, pending >>

\* line 93, lines 133-134: one call of add_to_node_groups
AddToNodeGroups ==
  /\ gen_pc = "groupings"
  /\ gen_idx <= Len(PortWalk("GTop"))
  /\ node_groups' = add_to_node_groups(node_groups, PortWalk("GTop")[gen_idx])
  /\ gen_idx' = gen_idx + 1
  /\ UNCHANGED << ports, connections, p_value, gen_pc, runVars,
                  arbVars >>

\* find_node_groupings returns; the loop of line 97 starts
GroupingsDone ==
  /\ gen_pc = "groupings"
  /\ gen_idx > Len(PortWalk("GTop"))
  /\ gen_pc' = "nodes"
  /\ gen_idx' = 1
  /\ UNCHANGED << ports, connections, node_groups, p_value, runVars,
                  arbVars >>

\* lines 97-103: one group gets its Node
CreateNode ==
  /\ gen_pc = "nodes"
  /\ gen_idx <= Len(node_groups)
  /\ p_value' = AttachNode(node_groups[gen_idx], NewNode(gen_idx))
  /\ gen_idx' = gen_idx + 1
  /\ UNCHANGED << ports, connections, node_groups, gen_pc, runVars,
                  arbVars >>

\* the loop of line 97 is over.  What follows in generate(), line 106, is
\* infer_sensitivity_list, which the run phase starts from.
NodesDone ==
  /\ gen_pc = "nodes"
  /\ gen_idx > Len(node_groups)
  /\ gen_pc' = "done"
  /\ UNCHANGED << ports, connections, node_groups, p_value, gen_idx, runVars,
                  arbVars >>

\* the run phase does not read what generate() used
GenIdle ==
  /\ ports = [ m \in Range(GenModules) |-> << >> ]
  /\ connections = [ e \in Ends |-> { } ]
  /\ node_groups = << >>
  /\ p_value = [ e \in Ends |-> None ]
  /\ gen_pc = "done"
  /\ gen_idx = 1

\* LogicSim(model) for a model with connected ports, before generate()
InitGen ==
  /\ \E walk \in Perms({ "a", "b", "c" }) :
       ports = [ m \in Range(GenModules) |->
                   IF m = "GTop" THEN SubSeq(walk, 1, 2) ELSE SubSeq(walk, 3, 3) ]
  /\ \E edges \in EdgeSets : connections = ConnOf(edges)
  /\ p_value \in PreOwned
  /\ node_groups = << >>
  /\ gen_pc = "groupings"
  /\ gen_idx = 1
  /\ vnode_callbacks = << >>
  /\ posedge_clk_fns = << >>
  /\ rnode_callbacks = << >>
  /\ is_reg = [ n \in Nodes |-> FALSE ]
  /\ num_cycles = 0
  /\ event_queue = << >>
  /\ value = [ n \in Nodes |-> 0 ]
  /\ next = [ n \in Nodes |-> 0 ]
  /\ has_next = [ n \in Nodes |-> FALSE ]
  /\ pc = "idle"
  /\ idx = 1
  /\ running = NoFn
  /\ ip = 1
  /\ raised = "none"
  /\ writes = 0
  /\ pre = [ n \in Nodes |-> 0 ]
  /\ older = { }
  /\ ran = << >>
  /\ drain_execs = FALSE
  /\ drained_once = FALSE
  /\ wire_written = FALSE
  /\ last_write = NoWrite
  /\ committed = { }
  /\ pending = { }
  /\ ArbIdle

NextGen ==
  \/ AddToNodeGroups
  \/ GroupingsDone
  \/ CreateNode
  \/ NodesDone

SpecGen == InitGen /\ [][NextGen]_vars

\* the run-phase fields of a simulator on which generate() has not run
RunUnbuilt ==
  /\ vnode_callbacks = << >>
  /\ posedge_clk_fns = << >>
  /\ rnode_callbacks = << >>
  /\ is_reg = [ n \in Nodes |-> FALSE ]
  /\ num_cycles = 0
  /\ event_queue = << >>
  /\ value = [ n \in Nodes |-> 0 ]
  /\ next = [ n \in Nodes |-> 0 ]
  /\ has_next = [ n \in Nodes |-> FALSE ]
  /\ pc = "idle"
  /\ idx = 1
  /\ running = NoFn
  /\ ip = 1
  /\ raised = "none"
  /\ writes = 0
  /\ pre = [ n \in Nodes |-> 0 ]
  /\ older = { }
  /\ ran = << >>
  /\ drain_execs = FALSE
  /\ drained_once = FALSE
  /\ wire_written = FALSE
  /\ last_write = NoWrite
  /\ committed = { }
  /\ pending = { }

\* the connection lists find_node_groupings can meet: any list on any port,
\* whether or not the other end lists the port in return; k is never visited,
\* so its own list is never read
ConnLists ==
  { c \in [ Ends -> SUBSET Ends ] :
      /\ c["k"] = { }
      /\ \A e \in Ends : e \notin c[e] }

\* LogicSim(model) before generate(), no port owning a Node
InitGroupings ==
  /\ \E walk \in Perms({ "a", "b", "c" }) :
       ports = [ m \in Range(GenModules) |->
                   IF m = "GTop" THEN SubSeq(walk, 1, 2) ELSE SubSeq(walk, 3, 3) ]
  /\ connections \in ConnLists
  /\ p_value = [ e \in Ends |-> None ]
  /\ node_groups = << >>
  /\ gen_pc = "groupings"
  /\ gen_idx = 1
  /\ RunUnbuilt
  /\ ArbIdle

SpecGroupings == InitGroupings /\ [][NextGen]_vars

\* ===================================================== the round-robin arbiters
\* RoundRobinArbiter(4) and RoundRobinArbiterEn(4) as arbiters_test.py drives
\* them: one row of test vector per cycle; tv_in writes the inputs, the
\* simulator runs one cycle, tv_out reads grants.  grants is what the
\* combinational logic computed from the inputs and the priority register before
\* the clock edge; the edge then updates the register.

\* RoundRobinArbiter( 4 )
nreqs == 4

Bit(x, i) == (x \div (2 ^ i)) % 2

ReqVals == 0..(2 ^ nreqs - 1)

\* the grant logic: a kill chain over the doubled request vector that starts at
\* the priority position and grants the first request it meets
RECURSIVE GrantChain(_, _, _, _, _)
GrantChain(i, kill, pri, rq, acc) ==
  IF i = 2 * nreqs THEN acc
  ELSE LET j == i % nreqs
           p == IF i < nreqs THEN Bit(pri, i) ELSE 0
           g == IF p = 1 THEN Bit(rq, j) ELSE (1 - kill) * Bit(rq, j)
           k == IF p = 1 THEN g ELSE (IF kill = 1 \/ g = 1 THEN 1 ELSE 0)
       IN  GrantChain(i + 1, k, pri, rq,
                      IF g = 1 /\ Bit(acc, j) = 0 THEN acc + 2 ^ j ELSE acc)

\* grants of RoundRobinArbiter
ArbGrants(pri, rq) == GrantChain(0, 1, pri, rq, 0)

\* grants of RoundRobinArbiterEn
ArbEnGrants(pri, e, rq) == IF e = 1 THEN ArbGrants(pri, rq) ELSE 0

\* a variant of the register's input: the grant itself
RotateNone(g) == g

\* the register's input: the grant rotated left by one position
RotateLeft(g) == ((2 * g) % (2 ^ nreqs)) + (g \div (2 ^ (nreqs - 1)))

\* the priority register is enabled by a non-zero grant
ArbPriority(pri, g) == IF g # 0 THEN RotateLeft(g) ELSE pri

\* a variant of RoundRobinArbiterEn whose register ignores en
ArbEnPriorityAlways(pri, e, rq) == ArbPriority(pri, ArbGrants(pri, rq))

\* RoundRobinArbiterEn: the register is enabled by en and a non-zero grant
ArbEnPriority(pri, e, rq) == ArbPriority(pri, ArbEnGrants(pri, e, rq))

\* test_rr_arb_4, lines 44-72: << reqs, grants >>
test_rr_arb_4 ==
  << << 0, 0 >>,
     << 1, 1 >>, << 2, 2 >>, << 4, 4 >>, << 8, 8 >>,
     << 15, 1 >>, << 15, 2 >>, << 15, 4 >>, << 15, 8 >>, << 15, 1 >>,
     << 12, 4 >>, << 10, 8 >>, << 9, 1 >>, << 6, 2 >>, << 5, 4 >>, << 3, 1 >>,
     << 14, 2 >>, << 13, 4 >>, << 11, 8 >>, << 7, 1 >> >>

\* test_rr_arb_en_4, lines 109-146: << en, reqs, grants >>
test_rr_arb_en_4 ==
  << << 0, 0, 0 >>, << 1, 0, 0 >>,
     << 1, 1, 1 >>, << 0, 2, 0 >>, << 1, 2, 2 >>, << 1, 4, 4 >>, << 0, 8, 0 >>,
     << 1, 8, 8 >>,
     << 1, 15, 1 >>, << 0, 15, 0 >>, << 1, 15, 2 >>, << 1, 15, 4 >>,
     << 1, 15, 8 >>, << 0, 15, 0 >>, << 1, 15, 1 >>,
     << 0, 12, 0 >>, << 1, 12, 4 >>, << 0, 10, 0 >>, << 1, 10, 8 >>,
     << 1, 9, 1 >>, << 1, 6, 2 >>, << 1, 5, 4 >>, << 1, 3, 1 >>,
     << 1, 14, 2 >>, << 0, 13, 0 >>, << 1, 13, 4 >>, << 1, 11, 8 >>,
     << 0, 7, 0 >>, << 1, 7, 1 >> >>

\* the inputs of the next row of the test, when the run has followed the test
NextRowIs(vectors, row) ==
  /\ tv >= 0
  /\ tv < Len(vectors)
  /\ SubSeq(vectors[tv + 1], 1, Len(row)) = row

\* history of one cycle with inputs e, rq
ArbNote(vectors, row, e, rq) ==
  /\ prev_priority' = priority_reg
  /\ tv' = IF NextRowIs(vectors, row) THEN tv + 1 ELSE -1
  /\ ones_run' = IF ones_run \in 0..(nreqs - 1) /\ e = 1 /\ rq = 2 ^ nreqs - 1
                 THEN ones_run + 1 ELSE -1

\* run_test, lines 23-32: one row on RoundRobinArbiter
ArbCycle(rq) ==
  /\ ~with_en
  /\ reqs' = rq
  /\ grants' = ArbGrants(priority_reg, rq)
  /\ priority_reg' = ArbPriority(priority_reg, ArbGrants(priority_reg, rq))
  /\ ArbNote(test_rr_arb_4, << rq >>, 1, rq)
  /\ UNCHANGED << with_en, en, runVars, genVars >>

\* run_en_test, lines 86-96: one row on RoundRobinArbiterEn
ArbEnCycle(e, rq) ==
  /\ with_en
  /\ en' = e
  /\ reqs' = rq
  /\ grants' = ArbEnGrants(priority_reg, e, rq)
  /\ priority_reg' = ArbEnPriority(priority_reg, e, rq)
  /\ ArbNote(test_rr_arb_en_4, << e, rq >>, e, rq)
  /\ UNCHANGED << with_en, runVars, genVars >>

\* either arbiter after reset: priority at requester 0
InitArb ==
  /\ with_en \in BOOLEAN
  /\ priority_reg = 1
  /\ reqs = 0
  /\ en = 0
  /\ grants = 0
  /\ prev_priority = 0
  /\ tv = 0
  /\ ones_run = 0
  /\ GenIdle
  /\ num_cycles = 0
  /\ vnode_callbacks = << >>
  /\ posedge_clk_fns = << >>
  /\ rnode_callbacks = << >>
  /\ is_reg = << >>
  /\ event_queue = << >>
  /\ value = << >>
  /\ next = << >>
  /\ has_next = << >>
  /\ pc = "idle"
  /\ idx = 1
  /\ running = NoFn
  /\ ip = 1
  /\ raised = "none"
  /\ writes = 0
  /\ pre = << >>
  /\ older = { }
  /\ ran = << >>
  /\ drain_execs = FALSE
  /\ drained_once = FALSE
  /\ wire_written = FALSE
  /\ last_write = NoWrite
  /\ committed = { }
  /\ pending = { }

NextArb ==
  \/ \E rq \in ReqVals : ArbCycle(rq)
  \/ \E e \in 0..1, rq \in ReqVals : ArbEnCycle(e, rq)

SpecArb == InitArb /\ [][NextArb]_vars

\* ------------------------------------------------------------ specification

\* the simulator after LogicSim(model) and generate()
Init ==
  \E d \in Designs, ord \in Orders :
    LET sim == infer_sensitivity_list(EmptySim, d, ord, "Top")
    IN  /\ vnode_callbacks = sim.vnode_callbacks
        /\ posedge_clk_fns = sim.posedge_clk_fns
        /\ rnode_callbacks = sim.rnode_callbacks
        /\ is_reg = sim.is_reg
        /\ num_cycles = 0
        /\ event_queue = << >>
        /\ value = [ n \in Nodes |-> 0 ]
        /\ next = [ n \in Nodes |-> 0 ]
        /\ has_next = [ n \in Nodes |-> FALSE ]
        /\ pc = "idle"
        /\ idx = 1
        /\ running = NoFn
        /\ ip = 1
        /\ raised = "none"
        /\ writes = 0
        /\ pre = [ n \in Nodes |-> 0 ]
        /\ older = { }
        /\ ran = << >>
        /\ drain_execs = FALSE
        /\ drained_once = FALSE
        /\ wire_written = FALSE
        /\ last_write = NoWrite
        /\ committed = { }
        /\ pending = { }
        /\ GenIdle
        /\ ArbIdle

Next ==
  \/ \E n \in ClientNodes, v \in Vals : ClientWrite(n, v)
  \/ CycleCall
  \/ SettlePop
  \/ ExecStmt
  \/ SettleExit
  \/ PosedgeCall
  \/ PosedgeExit
  \/ CommitReg
  \/ CommitRaises
  \/ Advance

Spec == Init /\ [][Next]_vars

\* ------------------------------------------------ the sorter under simulation
\* LogicSim built for SorterRTLFlat.  The client writes the four inputs once,
\* in_0 first, and then calls cycle(); between two calls it may assign an input
\* the value the input already holds.  Every register of the sorter is written
\* by reg_ab or reg_bc before the first commit, so clock() never finds next
\* missing here.

MaxSortVal == 4

MaxSortCycles == 3

SortVals == 1..MaxSortVal

\* the iteration orders of the sorter's comb_loads and reg_stores
SortOrders ==
  { [ comb |-> [ m \in { "Sorter" } |-> c ], reg |-> [ m \in { "Sorter" } |-> r ] ] :
      c \in Perms(comb_loads("Sorter")), r \in Perms(reg_stores("Sorter")) }

SortEmptySim == [ EmptySim EXCEPT !.is_reg = [ n \in SortNodes |-> FALSE ] ]

SortDriven == \A i \in DOMAIN SortIn : value[SortIn[i]] # 0

\* the test bench assigns in_i.value for the first time
SortDrive(i, v) ==
  /\ pc = "idle"
  /\ num_cycles = 0
  /\ value[SortIn[i]] = 0
  /\ i > 1 => value[SortIn[i - 1]] # 0
  /\ NodeSetValue(SortIn[i], v)
  /\ NoteWrite(SortIn[i], v)
  /\ UNCHANGED << num_cycles, simFields, committed, pc, idx, running, ip,
                  raised, writes, pre, ran, drain_execs, drained_once >>

\* the test bench assigns in_i.value again, to the value it holds
SortHold(i) ==
  /\ pc = "idle"
  /\ num_cycles > 0
  /\ NodeSetValue(SortIn[i], value[SortIn[i]])
  /\ NoteWrite(SortIn[i], value[SortIn[i]])
  /\ UNCHANGED << num_cycles, simFields, committed, pc, idx, running, ip,
                  raised, writes, pre, ran, drain_execs, drained_once >>

\* cycle() is called (line 40) once the inputs are written
SortCycleCall ==
  /\ pc = "idle"
  /\ SortDriven
  /\ num_cycles < MaxSortCycles
  /\ pc' = "settle"
  /\ raised' = "none"
  /\ pre' = value
  /\ ran' = << >>
  /\ drain_execs' = FALSE
  /\ last_write' = NoWrite
  /\ UNCHANGED << num_cycles, simFields, committed, pending, event_queue, value, next,
                  has_next, idx, running, ip, writes, older, drained_once,
                  wire_written >>

\* the simulator after LogicSim(SorterRTLFlat()) and generate()
InitSort ==
  \E ord \in SortOrders :
    LET sim == infer_sensitivity_list(SortEmptySim, CHOOSE d \in Designs : TRUE,
                                      ord, "Sorter")
    IN  /\ vnode_callbacks = sim.vnode_callbacks
        /\ posedge_clk_fns = sim.posedge_clk_fns
        /\ rnode_callbacks = sim.rnode_callbacks
        /\ is_reg = sim.is_reg
        /\ num_cycles = 0
        /\ event_queue = << >>
        /\ value = [ n \in SortNodes |-> 0 ]
        /\ next = [ n \in SortNodes |-> 0 ]
        /\ has_next = [ n \in SortNodes |-> FALSE ]
        /\ pc = "idle"
        /\ idx = 1
        /\ running = NoFn
        /\ ip = 1
        /\ raised = "none"
        /\ writes = 0
        /\ pre = [ n \in SortNodes |-> 0 ]
        /\ older = { }
        /\ ran = << >>
        /\ drain_execs = FALSE
        /\ drained_once = FALSE
        /\ wire_written = FALSE
        /\ last_write = NoWrite
        /\ committed = { }
        /\ pending = { }
        /\ GenIdle
        /\ ArbIdle

NextSort ==
  \/ \E i \in DOMAIN SortIn, v \in SortVals : SortDrive(i, v)
  \/ \E i \in DOMAIN SortIn : SortHold(i)
  \/ SortCycleCall
  \/ SettlePop
  \/ ExecStmt
  \/ SettleExit
  \/ PosedgeCall
  \/ PosedgeExit
  \/ CommitReg
  \/ Advance

SpecSort == InitSort /\ [][NextSort]_vars

\* ------------------------------------------------- a test bench that presets C
\* The run phase again, with a client that also assigns register C, which no
\* clock-edge function writes: C is written only when f2 runs or the client
\* assigns it, so cycles pass in which nothing writes it.
HoldNodes == ClientNodes \cup { "C" }

NextHold ==
  \/ \E n \in HoldNodes, v \in Vals : ClientWrite(n, v)
  \/ CycleCall
  \/ SettlePop
  \/ ExecStmt
  \/ SettleExit
  \/ PosedgeCall
  \/ PosedgeExit
  \/ CommitReg
  \/ CommitRaises
  \/ Advance

SpecHold == Init /\ [][NextHold]_vars

\* ------------------------------------------------------- cycle() keeps running
\* cycle() is one call on one thread: once called it keeps executing, so its
\* steps are taken as long as one is possible.  The client is under no
\* obligation to write or to call.
CycleStep ==
  \/ SettlePop
  \/ ExecStmt
  \/ SettleExit
  \/ PosedgeCall
  \/ PosedgeExit
  \/ CommitReg
  \/ CommitRaises
  \/ Advance

SpecLive == Init /\ [][Next]_vars /\ WF_vars(CycleStep)

\* the Nodes a function writes
WritesOf(f) == { Body(f)[i].dst : i \in 1..Len(Body(f)) }

\* the functions a run of f enqueues: those registered for a wire f writes
Wakes(f) ==
  UNION { Range(vnode_callbacks[n]) :
            n \in { m \in WritesOf(f) \cap DOMAIN vnode_callbacks : ~is_reg[m] } }

RECURSIVE WakesClosure(_, _)
WakesClosure(fs, k) ==
  IF k = 0 THEN fs
  ELSE WakesClosure(fs \cup UNION { Wakes(f) : f \in fs }, k - 1)

\* no combinational function wakes itself, directly or through others
Acyclic ==
  \A f \in CombFns : f \notin WakesClosure(Wakes(f), Cardinality(CombFns))

\* C11: a settle loop always stops, also when the sensitivity graph is cyclic
\* and the queue never empties: cycle() leaves the loop after a bounded number
\* of iterations, either because the queue is empty or with the error
\* CombinationalNonTermination.
C11_DrainStops == (pc = "settle") ~> (pc # "settle")

\* ==================================================================== claims

NoDup(q) == Cardinality(Range(q)) = Len(q)

CommitDone == pc = "commit" /\ idx > Len(rnode_callbacks)

\* C1: register atomicity.  While the clock-edge functions run, every register
\* still reads as it did when cycle() was called, so no function reads a value
\* committed in the same cycle; and when ra computes next(A) = current(B) (sel
\* false) and rb computes next(B) = current(A), then once the commits are done A
\* holds B's pre-step value and B holds A's, in every design (every order of the
\* two functions and of the two registers).
C1_RegisterAtomicity ==
  /\ pc = "posedge" =>
       \A r \in Nodes : is_reg[r] => value[r] = pre[r]
  /\ (CommitDone /\ pre["sel"] = 0) =>
       (value["A"] = pre["B"] /\ value["B"] = pre["A"])

C1_Witness ==
  /\ CommitDone
  /\ pre["sel"] = 0
  /\ pre["A"] # pre["B"]
  /\ value["A"] = pre["B"]
  /\ value["B"] = pre["A"]

\* C2: cycle() runs settle, clock-edge evaluation, commit and the counter
\* advance in this order, each phase complete before the next: the queue is
\* empty when the first clock-edge function is called, every clock-edge function
\* has been called and has finished when a register commits, num_cycles changes
\* only at the end of cycle(), by exactly 1, and a cycle() that returns has
\* advanced it.
C2_Phases ==
  /\ pc' # pc => << pc, pc' >> \in { << "idle", "settle" >>, << "settle", "posedge" >>,
                                     << "posedge", "commit" >>, << "commit", "idle" >> }
  /\ (pc = "posedge" /\ running = NoFn /\ idx = 1) => event_queue = << >>
  /\ pc = "commit" => (running = NoFn /\ ran = posedge_clk_fns)
  /\ num_cycles' # num_cycles =>
       (CommitDone /\ pc' = "idle" /\ num_cycles' = num_cycles + 1)
  /\ (pc # "idle" /\ pc' = "idle" /\ raised' = "none") =>
       (CommitDone /\ num_cycles' = num_cycles + 1)

C2_PhaseOrder == [][C2_Phases]_vars

C2_Witness == pc = "idle" /\ raised = "none" /\ num_cycles = 2 /\ writes > 0

\* C3: the settle loop runs to a fixpoint.  It is left only with the queue
\* empty and no function running, and a pending function leaves the queue only
\* by being the one executed next; so a function enqueued by a write made during
\* the drain is executed within that drain.
C3_Drain ==
  /\ (pc = "settle" /\ pc' # "settle") =>
       (event_queue = << >> /\ event_queue' = << >> /\ running = NoFn)
  /\ pc = "settle" =>
       \A f \in Range(event_queue) : f \in Range(event_queue') \/ running' = f

C3_DrainToFixpoint == [][C3_Drain]_vars

\* a write made by a function of the drain has just enqueued a function
C3_Witness ==
  /\ pc = "settle"
  /\ last_write.node # "none"
  /\ Len(event_queue) > Len(last_write.queue_before)

\* C4: the current value of a register Node changes only when cycle() commits
\* it (Node.clock on that register); a write to a register Node, whoever makes
\* it, changes its next and leaves every current value as it was.
C4_Register ==
  /\ \A n \in Nodes :
       (is_reg[n] /\ value'[n] # value[n]) =>
         /\ pc = "commit" /\ pc' = "commit"
         /\ idx <= Len(rnode_callbacks) /\ rnode_callbacks[idx] = n
         /\ value'[n] = next[n]
  /\ (last_write'.node # "none" /\ is_reg[last_write'.node]) =>
       /\ value' = value
       /\ has_next'[last_write'.node]
       /\ next'[last_write'.node] = last_write'.val

C4_RegisterOnlyAtCommit == [][C4_Register]_vars

\* a clock-edge function has just written a register with a value other than
\* its current one, while a combinational function's write to C is buffered
C4_Witness ==
  /\ pc = "posedge"
  /\ last_write.node = "B"
  /\ last_write.val # value["B"]
  /\ has_next["C"]
  /\ next["C"] # value["C"]

C6_IdempotentScheduling ==
  /\ NoDup(event_queue)
  /\ \A n \in Nodes :
       LET q1 == add_event(event_queue, n)
           q2 == add_event(q1, n)
       IN  /\ q2 = q1
           /\ NoDup(q1)
           /\ n \in DOMAIN vnode_callbacks =>
                Range(vnode_callbacks[n]) \subseteq Range(q1)

\* in_ has been written twice before a drain; its list names f1 twice
C6_Witness ==
  /\ pc = "idle"
  /\ last_write.node = "in_"
  /\ last_write.queue_before = << "f1" >>
  /\ event_queue = << "f1" >>
  /\ vnode_callbacks["in_"] = << "f1", "f1" >>

\* C7: FIFO execution.  The function the drain removes is the oldest pending
\* one: no function still pending was enqueued before it.
C7_Pop ==
  (pc = "settle" /\ running = NoFn /\ running' # NoFn) =>
    \A g \in Range(event_queue) : << g, running' >> \notin older

C7_Fifo == [][C7_Pop]_vars

\* two functions are pending, one enqueued before the other, and the drain is
\* about to remove one
C7_Witness ==
  /\ pc = "settle"
  /\ running = NoFn
  /\ older = { << "f2", "f1" >> }

\* C8: settlement idempotence.  In a drain that starts after an earlier drain
\* ran to its exit with no wire written since, nothing is pending, no function
\* is executed and no value changes.
C8_SettleIdempotent ==
  (pc = "settle" /\ drained_once /\ ~wire_written) =>
    /\ event_queue = << >>
    /\ running = NoFn
    /\ ~drain_execs
    /\ value = pre

C8_Witness ==
  /\ pc = "settle"
  /\ drained_once
  /\ ~wire_written
  /\ num_cycles > 0
  /\ value["w"] # 0

\* the members of a group that own a Node made before generate()
PreOwners(group) == { e \in group : p_value[e].kind = "pre" }

\* C9: after generate() every connectivity group has exactly one Node: all its
\* members reference the same Node, whose width is the maximum width among the
\* members; also when one member owned a Node beforehand, which is then the
\* Node of the whole group.
C9_OneNodePerGroup ==
  gen_pc = "done" =>
    \A i \in 1..Len(node_groups) :
      Cardinality(PreOwners(node_groups[i])) <= 1 =>
        \E e \in node_groups[i] :
          /\ p_value[e] # None
          /\ \A f \in node_groups[i] : p_value[f] = p_value[e]
          /\ NodeWidth(p_value[e]) = GroupWidth(node_groups[i])

\* C10: generate() does not complete for a model in which a connectivity group
\* has two members that own different Nodes beforehand (it fails with a merge
\* conflict instead).
C10_MergeConflictRaises ==
  gen_pc = "done" =>
    \A i \in 1..Len(node_groups) :
      \A e, f \in PreOwners(node_groups[i]) : p_value[e] = p_value[f]

\* C12: a register reads as its reset value 0 until its first commit, whether
\* or not its next value has been written: the Node holds 0, and what rb reads
\* from A while A has not been committed is 0.
C12_ResetValueBeforeCommit ==
  /\ \A r \in Nodes : (is_reg[r] /\ r \notin committed) => value[r] = 0
  /\ (pc = "posedge" /\ last_write.node = "B" /\ "A" \notin committed) =>
       last_write.val = 0

\* rb has just read A, whose next value 1 is written and not yet committed
C12_Witness ==
  /\ pc = "posedge"
  /\ last_write.node = "B"
  /\ "A" \notin committed
  /\ has_next["A"]
  /\ next["A"] = 1
  /\ last_write.val = 0

\* the values of the Nodes ns, in order
ValuesOf(ns) == [ i \in DOMAIN ns |-> value[ns[i]] ]

\* t holds the values of s in ascending order
SortedOf(t, s) ==
  /\ \A i \in 1..(Len(t) - 1) : t[i] <= t[i + 1]
  /\ \E p \in Perms(DOMAIN s) : \A i \in DOMAIN s : t[i] = s[p[i]]

\* C13: the sorter's inputs are written with four values and held; when the
\* third call of cycle() has returned, out_0..out_3 hold those four values in
\* ascending order (for the inputs 3, 1, 4, 2: the outputs 1, 2, 3, 4).
C13_SorterSorts ==
  (pc = "idle" /\ num_cycles = 3) => SortedOf(ValuesOf(SortOut), ValuesOf(SortIn))

\* the index of the one-hot value p
IndexOf(p) == CHOOSE i \in 0..(nreqs - 1) : p = 2 ^ i

\* the first requesting index at or after index from, in cyclic order
FirstRequester(from, rq) ==
  LET k == CHOOSE k \in 0..(nreqs - 1) :
             /\ Bit(rq, (from + k) % nreqs) = 1
             /\ \A j \in 0..(k - 1) : Bit(rq, (from + j) % nreqs) = 0
  IN  (from + k) % nreqs

\* what a round-robin cycle with requests rq leaves, starting from priority p
RoundRobinStep(p, rq) ==
  IF rq = 0
  THEN /\ grants = 0
       /\ priority_reg = p
  ELSE /\ grants = 2 ^ FirstRequester(IndexOf(p), rq)
       /\ priority_reg = 2 ^ ((FirstRequester(IndexOf(p), rq) + 1) % nreqs)

\* C14: the round-robin arbiter for 4 requesters starts with priority at index
\* 0; a cycle without requests grants nothing and leaves the priority; any other
\* cycle grants, one-hot, the first requesting index at or after the priority in
\* cyclic order and moves the priority to the index after it; four cycles of
\* reqs 1111 from reset grant 0001, 0010, 0100, 1000; and the rows of
\* test_rr_arb_4 are met.
C14_RoundRobin ==
  ~with_en =>
    /\ prev_priority = 0 => priority_reg = 1
    /\ prev_priority # 0 => RoundRobinStep(prev_priority, reqs)
    /\ ones_run \in 1..nreqs => grants = 2 ^ (ones_run - 1)
    /\ tv > 0 => grants = test_rr_arb_4[tv][2]

\* the priority has wrapped around: requesters 3 and 0 ask, 3 has priority
C14_Witness ==
  /\ ~with_en
  /\ prev_priority = 8
  /\ reqs = 9
  /\ grants = 8
  /\ priority_reg = 1

\* C15: the arbiter with an enable input: with en = 0 it grants nothing and
\* leaves the priority, whatever is requested; with en = 1 it grants and moves
\* the priority as the plain arbiter does; and the rows of test_rr_arb_en_4 are
\* met.
C15_RoundRobinEn ==
  (with_en /\ prev_priority # 0) =>
    /\ en = 0 => (grants = 0 /\ priority_reg = prev_priority)
    /\ en = 1 => /\ RoundRobinStep(prev_priority, reqs)
                 /\ grants = ArbGrants(prev_priority, reqs)
                 /\ priority_reg = ArbPriority(prev_priority, grants)
    /\ tv > 0 => grants = test_rr_arb_en_4[tv][3]

\* a disabled cycle with requests pending, after the priority has moved
C15_Witness ==
  /\ with_en
  /\ en = 0
  /\ reqs = 15
  /\ grants = 0
  /\ prev_priority = 4
  /\ priority_reg = 4

\* the ports add_to_node_groups has been called for
Visited ==
  IF gen_pc = "groupings"
  THEN { PortWalk("GTop")[i] : i \in 1..(gen_idx - 1) }
  ELSE Range(PortWalk("GTop"))

\* an edge of the undirected connection graph: one end is a visited port, the
\* other is in its connection list
Joined(e, f) ==
  \/ e \in Visited /\ f \in connections[e]
  \/ f \in Visited /\ e \in connections[f]

RECURSIVE Reach(_, _)
Reach(S, k) ==
  IF k = 0 THEN S
  ELSE Reach(S \cup { f \in Ends : \E e \in S : Joined(e, f) }, k - 1)

\* the connected component of e
Component(e) == Reach({ e }, Cardinality(Ends))

\* C16: after every call of add_to_node_groups the groups are pairwise disjoint
\* and are exactly the connected components of the undirected connection graph
\* over the ports visited so far and their connections: two endpoints share a
\* group when and only when connections join them, directly or through others.
\* The components do not depend on the order of the visits, so nor does the
\* partition find_node_groupings returns.
C16_GroupsAreComponents ==
  /\ \A i, j \in 1..Len(node_groups) :
       i # j => node_groups[i] \cap node_groups[j] = { }
  /\ Range(node_groups) =
       { Component(e) : e \in Visited \cup UNION { connections[p] : p \in Visited } }

\* the third port visited lists the first two, which list nobody: its call
\* joined two groups into one
C16_Witness ==
  /\ gen_pc = "nodes"
  /\ LET walk == PortWalk("GTop")
     IN  /\ connections[walk[1]] = { }
         /\ connections[walk[2]] = { }
         /\ connections[walk[3]] = { walk[1], walk[2] }
  /\ node_groups = << { "a", "b", "c" } >>

\* the clock-edge functions of a module in the order the class defines them,
\* which is the order SensitivityListVisitor meets them (line 297)
def_order(m) ==
  CASE m = "M3"     -> << "ra", "rb" >>
    [] m = "Sorter" -> << "reg_ab", "reg_bc" >>
    [] OTHER        -> << >>

\* hierarchy order: a module's functions, then those of its submodules in
\* declared order
RECURSIVE HierarchyOrder(_)
RECURSIVE HierarchyOrderSubs(_)
HierarchyOrder(m) == def_order(m) \o HierarchyOrderSubs(submodules(m))

HierarchyOrderSubs(ms) ==
  IF ms = << >> THEN << >>
  ELSE HierarchyOrder(Head(ms)) \o HierarchyOrderSubs(Tail(ms))

\* C17: in every cycle() each registered clock-edge function is executed exactly
\* once, and they run in hierarchy registration order: a module's functions
\* before those of its submodules, submodules in declared order, the functions
\* of one module in the order they were registered.
C17_ClockEdgeOrder == pc = "commit" => ran = HierarchyOrder("Top")

\* C18: a commit does not notify.  The step that commits a register leaves the
\* event queue exactly as it was, and once the commits are done a combinational
\* function registered for a register's Node is not pending, also when the
\* commit changed the register's value.
C18_Commit ==
  /\ (pc = "commit" /\ idx' = idx + 1) => event_queue' = event_queue
  /\ CommitDone =>
       \A r \in Nodes : (is_reg[r] /\ r \in DOMAIN vnode_callbacks) =>
         Range(vnode_callbacks[r]) \cap Range(event_queue) = { }

C18_CommitSilent == [][C18_Commit]_vars

\* the commits have changed A, for which f2 is registered, and f2 is not pending
C18_Witness ==
  /\ CommitDone
  /\ value["A"] # pre["A"]
  /\ "f2" \in Range(vnode_callbacks["A"])
  /\ "f2" \notin Range(event_queue)

\* C19: when the sensitivity graph is acyclic, the settle loop of cycle()
\* terminates whatever the queue holds when cycle() is called: the queue becomes
\* empty, the loop is left, and the call of cycle() comes to its end.
C19_AcyclicSettles ==
  /\ (Acyclic /\ pc = "settle") ~> (pc = "posedge" /\ event_queue = << >>)
  /\ (Acyclic /\ pc = "settle") ~> (pc = "idle")

\* an acyclic design in which the loop has run f1 and then f2, which f1 woke
C19_Witness ==
  /\ Acyclic
  /\ pc = "posedge"
  /\ drain_execs
  /\ pre["w"] = 0
  /\ value["out"] = 1

\* C20: cycle() completes without error for a circuit with a register whose
\* next value has never been written since the build, and the commit leaves
\* that register at its initial value 0.
C20_UnwrittenRegisterCommits ==
  /\ raised = "none"
  /\ CommitDone =>
       \A r \in Range(rnode_callbacks) : ~has_next[r] => value[r] = 0

\* C21: a register holds its value.  Once a register has been written and
\* committed, its value is the buffered next value as long as nothing writes it,
\* and no step of a later cycle() in which it is not written, the commit
\* included, changes its value: clock() leaves next as it is.
C21_Hold ==
  \A r \in Nodes :
    (is_reg[r] /\ r \in committed /\ r \notin pending) =>
      /\ has_next[r]
      /\ value[r] = next[r]
      /\ r \notin pending' => value'[r] = value[r]

C21_RegisterHolds == [][C21_Hold]_vars

\* C was committed with 1 in an earlier cycle(); in this one no combinational
\* function has run, so nothing wrote C, and the commits have left it at 1
C21_Witness ==
  /\ CommitDone
  /\ num_cycles > 0
  /\ ~drain_execs
  /\ "C" \in committed
  /\ "C" \notin pending
  /\ pre["C"] = 1
  /\ value["C"] = 1

====
